---- MODULE Spec2Model ----
(***************************************************************************)
(* Hypergraph extraction of bookshelf_r: MarkList (src/src/marklist.rs),   *)
(* the circuit readers and BookshelfCircuit::build_graph                   *)
(* (src/src/bookshelf.rs).                                                 *)
(*                                                                         *)
(* Rust vectors are modelled as TLA+ sequences; Rust indices are 0-based,  *)
(* so element i of a vector v is v[i + 1] here (operator At).  f32         *)
(* coordinates and sizes are drawn from small integers, on which f32       *)
(* addition, halving of even values and comparison are exact.              *)
(***************************************************************************)
EXTENDS Integers, Sequences, FiniteSets, TLC

\* Number of cells of the nodes file.
NumCells == 3

\* Largest number of pin lines of the nets file.
MaxPins == 3

\* Largest length of a mark list taken by itself.
MaxLen == 4

CellIds == 0 .. (NumCells - 1)

At(v, i) == v[i + 1]

InRange(v, i) == i >= 0 /\ i < Len(v)

Range(v) == {v[k] : k \in DOMAIN v}

SetAt(v, i, x) == [v EXCEPT ![i + 1] = x]

Fill(n, x) == [k \in 1 .. n |-> x]

(***************************************************************************)
(* MarkList                                                                *)
(***************************************************************************)

\* MarkList::new
MarkListNew(len) ==
    [len |-> len, marked |-> Fill(len, FALSE), list |-> <<>>, index |-> Fill(len, 0)]

\* Mark without the test of marked[n]: the id is pushed again.
MarkAlways(ml, n) ==
    [ml EXCEPT !.marked = SetAt(@, n, TRUE),
               !.index = SetAt(@, n, Len(ml.list)),
               !.list = Append(@, n)]

\* Mark that does not record the position of n in list.
MarkNoIndex(ml, n) ==
    IF ~At(ml.marked, n)
    THEN [ml EXCEPT !.marked = SetAt(@, n, TRUE),
                    !.list = Append(@, n)]
    ELSE ml

\* MarkList::mark, for n < len (the caller checks the bound: an index out of
\* range panics).
Mark(ml, n) ==
    IF ~At(ml.marked, n)
    THEN [ml EXCEPT !.marked = SetAt(@, n, TRUE),
                    !.index = SetAt(@, n, Len(ml.list)),
                    !.list = Append(@, n)]
    ELSE ml

\* The loop of MarkList::clear: one write of marked[v] per element v of list.
RECURSIVE ClearLoop(_, _, _)
ClearLoop(marked, list, k) ==
    IF k > Len(list) THEN marked
    ELSE ClearLoop(SetAt(marked, list[k], FALSE), list, k + 1)

\* ClearWrites that goes through the whole universe 0 .. len - 1.
ClearWritesAll(ml) == [k \in 1 .. ml.len |-> k - 1]

\* The ids v that the loop of MarkList::clear goes through (for v in
\* &self.list), in order: it writes marked[v] once for each.
ClearWrites(ml) == ml.list

\* Clear that empties list and leaves marked as it is.
ClearListOnly(ml) == [ml EXCEPT !.list = <<>>]

\* MarkList::clear
Clear(ml) ==
    [ml EXCEPT !.marked = ClearLoop(ml.marked, ClearWrites(ml), 1), !.list = <<>>]

(***************************************************************************)
(* The circuit and its readers                                             *)
(***************************************************************************)

\* The size columns of a nodes-file line (Cell.w, Cell.h): every other cell is
\* twice as high.
NodeW(c) == 2
NodeH(c) == 2 + 2 * (c % 2)

\* The position columns of a placement-file line.
PlX(c) == c
PlY(c) == (c + 1) % NumCells

\* BookshelfCircuit::read_nodes on a nodes file of NumCells lines: one Cell
\* without pins per line, and its position (0, 0).
ReadNodes ==
    [cells |-> [k \in 1 .. NumCells |-> [w |-> NodeW(k - 1), h |-> NodeH(k - 1), pins |-> <<>>]],
     cellpos |-> [k \in 1 .. NumCells |-> [x |-> 0, y |-> 0]],
     nets |-> <<>>]

\* One pin line of a net record in read_nets: the PinRef is pushed on the net,
\* the PinInstance on its cell, with the offset moved to the cell's lower left
\* corner.
ReadPin(st, nidx, line) ==
    LET cidx == line.cell
        cell == At(st.cells, cidx)
        pr   == [parent_cell |-> cidx, index |-> Len(cell.pins)]
        offx == cell.w \div 2
        offy == cell.h \div 2
        pi   == [dx |-> line.dx + offx, dy |-> line.dy + offy,
                 parent_cell |-> cidx, parent_net |-> nidx]
    IN  [st EXCEPT !.net = Append(@, pr),
                   !.cells = SetAt(@, cidx, [cell EXCEPT !.pins = Append(@, pi)])]

RECURSIVE ReadPins(_, _, _, _)
ReadPins(st, nidx, lines, p) ==
    IF p > Len(lines) THEN st
    ELSE ReadPins(ReadPin(st, nidx, lines[p]), nidx, lines, p + 1)

\* The loop of read_nets, nidx over the NumNets lines of the file that are
\* read as headers.  A line that does not scan as "NetDegree : d" is passed
\* over: no net is pushed for it, and nidx moves on all the same.
RECURSIVE ReadNetRecords(_, _, _)
ReadNetRecords(ckt, file, nidx) ==
    IF nidx >= Len(file) THEN ckt
    ELSE IF At(file, nidx).header # "NetDegree" THEN ReadNetRecords(ckt, file, nidx + 1)
    ELSE LET st == ReadPins([cells |-> ckt.cells, net |-> <<>>], nidx, At(file, nidx).pins, 1)
         IN  ReadNetRecords([ckt EXCEPT !.cells = st.cells,
                                        !.nets = Append(@, [pins |-> st.net])],
                            file, nidx + 1)

\* BookshelfCircuit::read_nets
ReadNets(ckt, file) == ReadNetRecords([ckt EXCEPT !.nets = <<>>], file, 0)

\* BookshelfCircuit::read_pl (reference = false) on a placement file with one
\* line per cell.
ReadPl(ckt) ==
    [ckt EXCEPT !.cellpos = [k \in 1 .. NumCells |-> [x |-> PlX(k - 1), y |-> PlY(k - 1)]]]

\* Pin lines of the two-token form "cell dir": the offsets stay 0.0.
PinLines == {[cell |-> c, dx |-> 0, dy |-> 0] : c \in CellIds}

\* Net records of 1 .. n pin lines: the header line and the pin lines after it.
NetRecords(n) ==
    {[header |-> "NetDegree", pins |-> ps] : ps \in UNION {[1 .. d -> PinLines] : d \in 1 .. n}}

\* A line at the place of a header that does not scan as one.
OtherLine == [header |-> "other", pins |-> <<>>]

\* Nets files with at most n pin lines in all.
RECURSIVE NetsFiles(_)
NetsFiles(n) ==
    {<<>>} \cup UNION {{<<rec>> \o rest : rest \in NetsFiles(n - Len(rec.pins))} : rec \in NetRecords(n)}

\* BookshelfCircuit::read_aux: nodes, nets, placement.
ReadAux(file) == ReadPl(ReadNets(ReadNodes, file))

(***************************************************************************)
(* HyperParams and the hypergraph                                          *)
(***************************************************************************)

\* HyperParams::new
HyperParamsNew(c) ==
    [cellmark |-> MarkListNew(Len(c.cells)),
     netmark |-> MarkListNew(Len(c.nets)),
     horizontal |-> FALSE,
     split_point |-> 0,
     partition |-> Fill(Len(c.cells), -1),
     bias |-> <<1, 2>>,
     k |-> 2,
     term_prop |-> TRUE,
     passes |-> 1,
     seed |-> 8675309,
     edgeweight |-> 0]

\* The public configuration fields of HyperParams, as a caller sets them.
Configure(p, cfg) ==
    [p EXCEPT !.horizontal = cfg.horizontal,
              !.split_point = cfg.split_point,
              !.term_prop = cfg.term_prop,
              !.edgeweight = cfg.edgeweight]

\* HyperGraph::new: five empty vectors.
HyperGraphNew == [vtxwt |-> <<>>, hewt |-> <<>>, part |-> <<>>, eind |-> <<>>, eptr |-> <<>>]

\* Cell::area
Area(cell) == cell.h * cell.w

\* `as c_int` of an f32: the value, saturated to the range of a 32-bit int.
AsCInt(v) ==
    IF v > 2147483647 THEN 2147483647
    ELSE IF v < -2147483647 - 1 THEN -2147483647 - 1
    ELSE v

\* BookshelfCircuit::pinloc, for a pin reference in range.
PinLoc(c, pr) ==
    LET pos == At(c.cellpos, pr.parent_cell)
        pin == At(At(c.cells, pr.parent_cell).pins, pr.index)
    IN  [px |-> pos.x + pin.dx, py |-> pos.y + pin.dy]

\* Whether pinloc indexes inside cellpos, cells and the cell's pins.
PinLocInRange(c, pr) ==
    /\ InRange(c.cellpos, pr.parent_cell)
    /\ InRange(c.cells, pr.parent_cell)
    /\ InRange(At(c.cells, pr.parent_cell).pins, pr.index)

(***************************************************************************)
(* WlCalc: the wire length of the nets on a set of cells.                  *)
(***************************************************************************)

\* WlCalc::new
WlCalcNew(bc) == [marked_nets |-> MarkListNew(Len(bc.nets)), panic |-> FALSE]

\* The body of the inner loop of add_cells that marks the net whether or not
\* it is marked.
AddPinAlways(w, p) ==
    IF ~InRange(w.marked_nets.marked, p.parent_net)
    THEN [w EXCEPT !.panic = TRUE]
    ELSE [w EXCEPT !.marked_nets = MarkAlways(@, p.parent_net)]

\* The body of the inner loop of WlCalc::add_cells:
\* self.marked_nets.mark(p.parent_net)
AddPin(w, p) ==
    IF ~InRange(w.marked_nets.marked, p.parent_net)
    THEN [w EXCEPT !.panic = TRUE]
    ELSE [w EXCEPT !.marked_nets = Mark(@, p.parent_net)]

\* for p in &bc.cells[*c].pins
RECURSIVE AddPins(_, _, _)
AddPins(w, pins, k) ==
    IF k > Len(pins) \/ w.panic THEN w
    ELSE AddPins(AddPin(w, pins[k]), pins, k + 1)

\* for c in cells
RECURSIVE AddCellsFrom(_, _, _, _)
AddCellsFrom(w, bc, cs, i) ==
    IF i > Len(cs) \/ w.panic THEN w
    ELSE IF ~InRange(bc.cells, cs[i]) THEN [w EXCEPT !.panic = TRUE]
    ELSE AddCellsFrom(AddPins(w, At(bc.cells, cs[i]).pins, 1), bc, cs, i + 1)

\* WlCalc::add_cells
AddCells(w, bc, cs) == AddCellsFrom(w, bc, cs, 1)

\* WlCalc::clear
WlCalcClear(w) == [w EXCEPT !.marked_nets = Clear(@)]

Min(a, b) == IF a < b THEN a ELSE b

Max(a, b) == IF a > b THEN a ELSE b

\* The loop of BookshelfCircuit::net_wl over the pin references of the net:
\* the box takes the first pin's location, then grows to hold the others.
RECURSIVE NetBox(_, _, _, _)
NetBox(bc, pins, k, box) ==
    IF k > Len(pins) THEN box
    ELSE LET loc == PinLoc(bc, pins[k])
         IN  NetBox(bc, pins, k + 1,
                    IF k = 1
                    THEN [llx |-> loc.px, urx |-> loc.px, lly |-> loc.py, ury |-> loc.py]
                    ELSE [llx |-> Min(box.llx, loc.px), urx |-> Max(box.urx, loc.px),
                          lly |-> Min(box.lly, loc.py), ury |-> Max(box.ury, loc.py)])

\* BookshelfCircuit::net_wl: half the perimeter of the box of the net's pins.
NetWl(bc, n) ==
    LET box == NetBox(bc, n.pins, 1, [llx |-> 0, urx |-> 0, lly |-> 0, ury |-> 0])
    IN  (box.urx - box.llx) + (box.ury - box.lly)

\* The loop of WlCalc::wl over marked_nets.list.
RECURSIVE WlFrom(_, _, _, _)
WlFrom(w, bc, k, total) ==
    IF k > Len(w.marked_nets.list) THEN total
    ELSE WlFrom(w, bc, k + 1, total + NetWl(bc, At(bc.nets, w.marked_nets.list[k])))

\* WlCalc::wl
Wl(w, bc) == WlFrom(w, bc, 1, 0)

(***************************************************************************)
(* build_graph, loop by loop.  Each loop threads a record of the locals    *)
(* it changes; panic is set where the Rust code indexes out of range, and  *)
(* the loops stop there.                                                   *)
(***************************************************************************)

\* The inner loop of the marking loop: mark the parent net of every pin of
\* the cell.
RECURSIVE MarkNetsOfCell(_, _, _)
MarkNetsOfCell(st, pins, k) ==
    IF k > Len(pins) \/ st.panic THEN st
    ELSE LET net_id == pins[k].parent_net
         IN  IF ~InRange(st.netmark.marked, net_id)
             THEN [st EXCEPT !.panic = TRUE]
             ELSE MarkNetsOfCell([st EXCEPT !.netmark = Mark(@, net_id)], pins, k + 1)

\* MarkCell that takes the cell from the argument, not from cellmark.list.
MarkCellOfArgument(c, cells, st, i) ==
    LET id == At(cells, i)
    IN  IF ~InRange(st.cellmark.marked, id)
        THEN [st EXCEPT !.panic = TRUE]
        ELSE LET st1 == IF At(st.cellmark.marked, id)
                        THEN [st EXCEPT !.out = Append(@, [msg |-> "Cell already marked!"])]
                        ELSE st
                 st2 == [st1 EXCEPT !.cellmark = Mark(@, id)]
             IN  MarkNetsOfCell(st2, At(c.cells, id).pins, 1)

\* MarkCell that passes over an id that is no cell of the circuit.
MarkCellSkipping(c, cells, st, i) ==
    LET id == At(cells, i)
    IN  IF ~InRange(st.cellmark.marked, id)
        THEN st
        ELSE LET st1 == IF At(st.cellmark.marked, id)
                        THEN [st EXCEPT !.out = Append(@, [msg |-> "Cell already marked!"])]
                        ELSE st
                 st2 == [st1 EXCEPT !.cellmark = Mark(@, id)]
             IN  IF ~InRange(st2.cellmark.list, i)
                 THEN [st2 EXCEPT !.panic = TRUE]
                 ELSE LET cell_id == At(st2.cellmark.list, i)
                      IN  MarkNetsOfCell(st2, At(c.cells, cell_id).pins, 1)

\* One iteration of the marking loop, for position i of cells.
MarkCell(c, cells, st, i) ==
    LET id == At(cells, i)
    IN  IF ~InRange(st.cellmark.marked, id)
        THEN [st EXCEPT !.panic = TRUE]
        ELSE LET st1 == IF At(st.cellmark.marked, id)
                        THEN [st EXCEPT !.out = Append(@, [msg |-> "Cell already marked!"])]
                        ELSE st
                 st2 == [st1 EXCEPT !.cellmark = Mark(@, id)]
             IN  IF ~InRange(st2.cellmark.list, i)
                 THEN [st2 EXCEPT !.panic = TRUE]
                 ELSE LET cell_id == At(st2.cellmark.list, i)
                      IN  MarkNetsOfCell(st2, At(c.cells, cell_id).pins, 1)

RECURSIVE MarkCells(_, _, _, _)
MarkCells(c, cells, st, i) ==
    IF i >= Len(cells) \/ st.panic THEN st
    ELSE MarkCells(c, cells, MarkCell(c, cells, st, i), i + 1)

\* SplitValue with the axes exchanged.
SplitValueSwapped(p, loc) == IF p.horizontal THEN loc.px ELSE loc.py

\* The coordinate compared with the split point: y for a horizontal split,
\* x otherwise.
SplitValue(p, loc) == IF p.horizontal THEN loc.py ELSE loc.px

\* Classify with the two branches exchanged.
ClassifySwapped(p, st, idx, split_value) ==
    IF split_value < p.split_point
    THEN [st EXCEPT !.sinks = SetAt(@, idx, TRUE)]
    ELSE [st EXCEPT !.sources = SetAt(@, idx, TRUE)]

\* The comparison with the split point: sources or sinks of the net is set.
Classify(p, st, idx, split_value) ==
    IF split_value < p.split_point
    THEN [st EXCEPT !.sources = SetAt(@, idx, TRUE)]
    ELSE [st EXCEPT !.sinks = SetAt(@, idx, TRUE)]

\* ScanPin that classifies the pins of marked cells too.
ScanPinClassifyAll(c, p, st, net_id, pr) ==
    LET idx == At(p.netmark.index, net_id)
    IN  IF ~InRange(p.cellmark.marked, pr.parent_cell)
        THEN [st EXCEPT !.panic = TRUE]
        ELSE LET st1 == IF At(p.cellmark.marked, pr.parent_cell)
                        THEN [st EXCEPT !.cardinality = SetAt(@, idx, At(@, idx) + 1)]
                        ELSE st
             IN  IF p.term_prop
                 THEN IF ~PinLocInRange(c, pr)
                      THEN [st1 EXCEPT !.panic = TRUE]
                      ELSE Classify(p, st1, idx, SplitValue(p, PinLoc(c, pr)))
                 ELSE st1

\* One pin reference of a marked net in the scanning loop.
ScanPin(c, p, st, net_id, pr) ==
    LET idx == At(p.netmark.index, net_id)
    IN  IF ~InRange(p.cellmark.marked, pr.parent_cell)
        THEN [st EXCEPT !.panic = TRUE]
        ELSE IF At(p.cellmark.marked, pr.parent_cell)
        THEN [st EXCEPT !.cardinality = SetAt(@, idx, At(@, idx) + 1)]
        ELSE IF p.term_prop
        THEN IF ~PinLocInRange(c, pr)
             THEN [st EXCEPT !.panic = TRUE]
             ELSE Classify(p, st, idx, SplitValue(p, PinLoc(c, pr)))
        ELSE st

RECURSIVE ScanPins(_, _, _, _, _, _)
ScanPins(c, p, st, net_id, prs, k) ==
    IF k > Len(prs) \/ st.panic THEN st
    ELSE ScanPins(c, p, ScanPin(c, p, st, net_id, prs[k]), net_id, prs, k + 1)

\* The FOUND lines: the pins with this parent net among cells 0 .. n - 1.
RECURSIVE FoundLines(_, _, _, _, _)
FoundLines(c, p, net_id, n, cell_id) ==
    IF cell_id >= n THEN <<>>
    ELSE LET pins == At(c.cells, cell_id).pins
             hits == SelectSeq(pins, LAMBDA pi : pi.parent_net = net_id)
         IN  [k \in 1 .. Len(hits) |->
                 [msg |-> "FOUND", cell |-> cell_id, mark |-> At(p.cellmark.marked, cell_id)]]
             \o FoundLines(c, p, net_id, n, cell_id + 1)

\* CheckDetected that reports a net of fewer than two internal pins.
CheckDetectedBelowTwo(c, cells, p, st, net_id) ==
    IF At(st.cardinality, At(p.netmark.index, net_id)) < 2 /\ ~st.warned
    THEN [st EXCEPT !.warned = TRUE,
                    !.out = Append(@, [msg |-> "marked, but not detected", net |-> net_id])
                            \o FoundLines(c, p, net_id, Len(cells), 0)]
    ELSE st

\* CheckDetected that does not set warned.
CheckDetectedNoFlag(c, cells, p, st, net_id) ==
    IF At(st.cardinality, At(p.netmark.index, net_id)) = 0 /\ ~st.warned
    THEN [st EXCEPT !.out = Append(@, [msg |-> "marked, but not detected", net |-> net_id])
                            \o FoundLines(c, p, net_id, Len(cells), 0)]
    ELSE st

\* The check after a net's pins are scanned: a marked net without internal pin
\* is reported, once per call.  (cells.len() is at most the number of cells
\* here: the marking loop has put every position of cells on cellmark.list.)
CheckDetected(c, cells, p, st, net_id) ==
    IF At(st.cardinality, At(p.netmark.index, net_id)) = 0 /\ ~st.warned
    THEN [st EXCEPT !.warned = TRUE,
                    !.out = Append(@, [msg |-> "marked, but not detected", net |-> net_id])
                            \o FoundLines(c, p, net_id, Len(cells), 0)]
    ELSE st

\* One marked net in the scanning loop.
ScanNet(c, cells, p, st, net_id) ==
    LET st1 == ScanPins(c, p, st, net_id, At(c.nets, net_id).pins, 1)
    IN  IF st1.panic THEN st1 ELSE CheckDetected(c, cells, p, st1, net_id)

RECURSIVE ScanNets(_, _, _, _, _)
ScanNets(c, cells, p, st, k) ==
    IF k > Len(p.netmark.list) \/ st.panic THEN st
    ELSE ScanNets(c, cells, p, ScanNet(c, cells, p, st, p.netmark.list[k]), k + 1)

\* PushCells that reads the cell at the loop's position, not the one listed
\* there.
RECURSIVE PushCellsByPosition(_, _, _, _)
PushCellsByPosition(c, list, hg, k) ==
    IF k > Len(list) THEN hg
    ELSE PushCellsByPosition(c, list,
                             [hg EXCEPT !.vtxwt = Append(@, AsCInt(Area(At(c.cells, k - 1)))),
                                        !.part = Append(@, -1)],
                             k + 1)

\* The vertex loop: one weight (the cell's area) and partition -1 per marked
\* cell, in cellmark.list order.
RECURSIVE PushCells(_, _, _, _)
PushCells(c, list, hg, k) ==
    IF k > Len(list) THEN hg
    ELSE PushCells(c, list,
                   [hg EXCEPT !.vtxwt = Append(@, AsCInt(Area(At(c.cells, list[k])))),
                              !.part = Append(@, -1)],
                   k + 1)

\* PushTerminals that leaves the two fixed vertices unassigned.
PushTerminalsFree(p, em) ==
    IF p.term_prop
    THEN [em EXCEPT !.src_id = Len(em.hg.vtxwt),
                    !.sink_id = Len(em.hg.vtxwt) + 1,
                    !.hg.vtxwt = @ \o <<1, 1>>,
                    !.hg.part = @ \o <<-1, -1>>]
    ELSE em

\* PushTerminals with sink_id read after the sink vertex is pushed.
PushTerminalsLate(p, em) ==
    IF p.term_prop
    THEN [em EXCEPT !.src_id = Len(em.hg.vtxwt),
                    !.sink_id = Len(em.hg.vtxwt) + 2,
                    !.hg.vtxwt = @ \o <<1, 1>>,
                    !.hg.part = @ \o <<0, 1>>]
    ELSE em

\* PushTerminals that adds the two fixed vertices only after a real vertex.
PushTerminalsIfCells(p, em) ==
    IF p.term_prop /\ Len(em.hg.vtxwt) > 0
    THEN [em EXCEPT !.src_id = Len(em.hg.vtxwt),
                    !.sink_id = Len(em.hg.vtxwt) + 1,
                    !.hg.vtxwt = @ \o <<1, 1>>,
                    !.hg.part = @ \o <<0, 1>>]
    ELSE em

\* The fixed source and sink vertices, pushed when terminal propagation is
\* enabled: em carries hg and the two ids.
PushTerminals(p, em) ==
    IF p.term_prop
    THEN LET src_id  == Len(em.hg.vtxwt)
             sink_id == Len(em.hg.vtxwt) + 1
         IN  [em EXCEPT !.src_id = src_id,
                        !.sink_id = sink_id,
                        !.hg.vtxwt = @ \o <<1, 1>>,
                        !.hg.part = @ \o <<0, 1>>]
    ELSE em

\* PushInternal that pushes a cell once per net, however many pins it has on it.
RECURSIVE PushInternalOnce(_, _, _, _)
PushInternalOnce(p, em, prs, k) ==
    IF k > Len(prs) THEN em
    ELSE LET id   == At(p.cellmark.index, prs[k].parent_cell)
             seen == {em.hg.eptr[j] : j \in (Len(em.hg.eptr) - em.card + 1) .. Len(em.hg.eptr)}
         IN  IF At(p.cellmark.marked, prs[k].parent_cell) /\ id \notin seen
             THEN PushInternalOnce(p,
                                   [em EXCEPT !.hg.eptr = Append(@, id), !.card = @ + 1],
                                   prs, k + 1)
             ELSE PushInternalOnce(p, em, prs, k + 1)

\* PushInternal that pushes the cell's id in the circuit, not its index in
\* cellmark.
RECURSIVE PushInternalGlobal(_, _, _, _)
PushInternalGlobal(p, em, prs, k) ==
    IF k > Len(prs) THEN em
    ELSE IF At(p.cellmark.marked, prs[k].parent_cell)
    THEN PushInternalGlobal(p,
                            [em EXCEPT !.hg.eptr = Append(@, prs[k].parent_cell),
                                       !.card = @ + 1],
                            prs, k + 1)
    ELSE PushInternalGlobal(p, em, prs, k + 1)

\* The pins of a net on marked cells, pushed on eptr as the cells' indexes.
RECURSIVE PushInternal(_, _, _, _)
PushInternal(p, em, prs, k) ==
    IF k > Len(prs) THEN em
    ELSE IF At(p.cellmark.marked, prs[k].parent_cell)
    THEN PushInternal(p,
                      [em EXCEPT !.hg.eptr = Append(@, At(p.cellmark.index, prs[k].parent_cell)),
                                 !.card = @ + 1],
                      prs, k + 1)
    ELSE PushInternal(p, em, prs, k + 1)

\* EdgeWeight whose mode 1 asks for source and sink together.
EdgeWeightAnd(mode, source, sink) ==
    CASE mode = 0 -> 1
      [] mode = 1 -> IF source /\ sink THEN 6 ELSE 5
      [] OTHER -> 1

\* EdgeWeight whose other modes weigh as mode 1 does.
EdgeWeightOtherAsOne(mode, source, sink) ==
    CASE mode = 0 -> 1
      [] OTHER -> IF source \/ sink THEN 6 ELSE 5

\* The match on params.edgeweight.
EdgeWeight(mode, source, sink) ==
    CASE mode = 0 -> 1
      [] mode = 1 -> IF source \/ sink THEN 6 ELSE 5
      [] OTHER -> 1

\* PushPropagated that pushes the sink before the source.
PushPropagatedSinkFirst(p, em, source, sink) ==
    IF p.term_prop
    THEN LET em1 == IF sink
                    THEN [em EXCEPT !.hg.eptr = Append(@, em.sink_id),
                                    !.totfix = @ + 1, !.card = @ + 1, !.tot_prop = @ + 1]
                    ELSE em
         IN  IF source
             THEN [em1 EXCEPT !.hg.eptr = Append(@, em1.src_id),
                              !.totfix = @ + 1, !.card = @ + 1, !.tot_prop = @ + 1]
             ELSE em1
    ELSE em

\* The source and the sink vertex, pushed on eptr for a net that touches them.
PushPropagated(p, em, source, sink) ==
    IF p.term_prop
    THEN LET em1 == IF source
                    THEN [em EXCEPT !.hg.eptr = Append(@, em.src_id),
                                    !.totfix = @ + 1, !.card = @ + 1, !.tot_prop = @ + 1]
                    ELSE em
         IN  IF sink
             THEN [em1 EXCEPT !.hg.eptr = Append(@, em1.sink_id),
                              !.totfix = @ + 1, !.card = @ + 1, !.tot_prop = @ + 1]
             ELSE em1
    ELSE em

\* EndNet that pushes the net's own pin count on eind, not the running total.
EndNetCard(p, em, idx, source, sink) ==
    LET em1 == [em EXCEPT !.hg.eind = Append(@, em.card)]
    IN  IF em.card < 2 /\ p.term_prop /\ ~em.warned
        THEN [em1 EXCEPT !.warned = TRUE,
                         !.out = Append(@, [msg |-> "Cardinality", card |-> em.card, net |-> idx,
                                            source |-> source, sink |-> sink])]
        ELSE em1

\* EndNet that reports a net of fewer than two pins under any configuration.
EndNetAnyConfig(p, em, idx, source, sink) ==
    LET em1 == [em EXCEPT !.hg.eind = Append(@, Len(em.hg.eptr))]
    IN  IF em.card < 2 /\ ~em.warned
        THEN [em1 EXCEPT !.warned = TRUE,
                         !.out = Append(@, [msg |-> "Cardinality", card |-> em.card, net |-> idx,
                                            source |-> source, sink |-> sink])]
        ELSE em1

\* The end of a net: eind gets the length of eptr, and a net of fewer than two
\* pins is reported, unless something was reported before.
EndNet(p, em, idx, source, sink) ==
    LET em1 == [em EXCEPT !.hg.eind = Append(@, Len(em.hg.eptr))]
    IN  IF em.card < 2 /\ p.term_prop /\ ~em.warned
        THEN [em1 EXCEPT !.warned = TRUE,
                         !.out = Append(@, [msg |-> "Cardinality", card |-> em.card, net |-> idx,
                                            source |-> source, sink |-> sink])]
        ELSE em1

\* One marked net in the emitting loop.
EmitNet(c, p, sc, em, net_id) ==
    LET idx    == At(p.netmark.index, net_id)
        source == At(sc.sources, idx)
        sink   == At(sc.sinks, idx)
        em1    == PushInternal(p, [em EXCEPT !.card = 0], At(c.nets, net_id).pins, 1)
        em2    == [em1 EXCEPT !.hg.hewt = Append(@, EdgeWeight(p.edgeweight, source, sink))]
        em3    == PushPropagated(p, em2, source, sink)
    IN  EndNet(p, em3, idx, source, sink)

\* EmitNets that goes through netmark.list from its end.
RECURSIVE EmitNetsBackwards(_, _, _, _, _)
EmitNetsBackwards(c, p, sc, em, k) ==
    IF k > Len(p.netmark.list) THEN em
    ELSE EmitNetsBackwards(c, p, sc,
                           EmitNet(c, p, sc, em, p.netmark.list[Len(p.netmark.list) - k + 1]),
                           k + 1)

\* The emitting loop: for net_id in &params.netmark.list
RECURSIVE EmitNets(_, _, _, _, _)
EmitNets(c, p, sc, em, k) ==
    IF k > Len(p.netmark.list) THEN em
    ELSE EmitNets(c, p, sc, EmitNet(c, p, sc, em, p.netmark.list[k]), k + 1)

\* The three vectors of the scanning loop (cardinality, sinks, sources) before
\* they are allocated.
NoScan == [cardinality |-> <<>>, sinks |-> <<>>, sources |-> <<>>]

\* The end of build_graph: the vertices and the hyperedges, for the marks p
\* and the scan sc.
Emit(c, p, sc) ==
    IF sc.panic
    THEN [panic |-> TRUE, params |-> p, out |-> sc.out, hg |-> HyperGraphNew, scan |-> NoScan]
    ELSE LET vx == PushTerminals(p,
                       [hg |-> PushCells(c, p.cellmark.list, HyperGraphNew, 1),
                        src_id |-> 0, sink_id |-> 0, card |-> 0, totfix |-> 0, tot_prop |-> 0,
                        warned |-> sc.warned, out |-> sc.out])
             em == EmitNets(c, p, sc, [vx EXCEPT !.hg.eind = <<0>>], 1)
         IN  [panic |-> FALSE, params |-> p, out |-> em.out, hg |-> em.hg,
              scan |-> [cardinality |-> sc.cardinality, sinks |-> sc.sinks,
                        sources |-> sc.sources]]

\* The middle of build_graph: the scan of the marked nets, for the marks p.
Scan(c, cells, p, printed) ==
    LET n == Len(p.netmark.list)
    IN  Emit(c, p,
             ScanNets(c, cells, p,
                      [cardinality |-> Fill(n, 0), sinks |-> Fill(n, FALSE),
                       sources |-> Fill(n, FALSE), warned |-> FALSE,
                       out |-> printed, panic |-> FALSE], 1))

\* The marking loop of build_graph ended in mk, from the cleared context p0.
Marked(c, cells, p0, mk) ==
    IF mk.panic
    THEN [panic |-> TRUE, out |-> mk.out, hg |-> HyperGraphNew, scan |-> NoScan,
          params |-> [p0 EXCEPT !.cellmark = mk.cellmark, !.netmark = mk.netmark]]
    ELSE Scan(c, cells, [p0 EXCEPT !.cellmark = mk.cellmark, !.netmark = mk.netmark], mk.out)

\* The start of build_graph: both mark lists are cleared, then the cells of
\* the subset and their nets are marked.
Cleared(c, cells, p0) ==
    Marked(c, cells, p0,
           MarkCells(c, cells,
                     [cellmark |-> p0.cellmark, netmark |-> p0.netmark,
                      out |-> <<>>, panic |-> FALSE], 0))

\* build_graph that leaves the partition of the hypergraph in the context.
BuildGraphKeepingPart(c, cells, p) ==
    LET r == Cleared(c, cells, [p EXCEPT !.cellmark = Clear(@), !.netmark = Clear(@)])
    IN  [r EXCEPT !.params.partition = r.hg.part]

\* build_graph without the two calls of clear.
BuildGraphNoClear(c, cells, p) == Cleared(c, cells, p)

\* BookshelfCircuit::build_graph: the context after the call, what was
\* printed, and either the hypergraph returned or a panic.
build_graph(c, cells, p) ==
    Cleared(c, cells, [p EXCEPT !.cellmark = Clear(@), !.netmark = Clear(@)])

(***************************************************************************)
(* The state machine: a circuit is read, a context is created for it and   *)
(* configured, and one subset of its cells is extracted.                   *)
(***************************************************************************)

\* The split coordinates a caller configures: the default and one between
\* the pins.
SplitPoints == {0, 2}

\* The edge-weight modes a caller configures: 0, 1 and one other value.
EdgeWeightModes == {0, 1, 2}

\* Every configuration.
Configs ==
    [horizontal : BOOLEAN, split_point : SplitPoints, term_prop : BOOLEAN,
     edgeweight : EdgeWeightModes]

\* The configurations of a vertical split between the pins, default weights,
\* with and without terminal propagation.
PlainConfigs ==
    [horizontal : {FALSE}, split_point : {2}, term_prop : BOOLEAN, edgeweight : {0}]

\* Nets files of at most one net record.
OneNetFiles == {<<>>} \cup {<<rec>> : rec \in NetRecords(MaxPins)}

\* The duplicate-free sequences of the ids in ids.
RECURSIVE Orderings(_)
Orderings(ids) ==
    IF ids = {} THEN {<<>>}
    ELSE UNION {{<<x>> \o rest : rest \in Orderings(ids \ {x})} : x \in ids}

\* The subsets of the cells, as duplicate-free vectors of ids in any order.
Subsets == UNION {Orderings(ids) : ids \in SUBSET CellIds}

VARIABLES
    ckt,     \* the BookshelfCircuit
    params,  \* the HyperParams
    cells,   \* the cells argument of the build_graph call
    hg,      \* the HyperGraph returned
    scan,    \* the locals cardinality, sinks and sources at the return
    out,     \* the lines the call printed
    pc,      \* "ready", then "returned" or "panicked"
    ml,      \* a MarkList of its own, outside any context
    wlcalc,  \* a WlCalc for the circuit
    contexts, \* the HyperParams of two calls of build_graph that run together
    calls    \* these two calls: arguments, position in the code, locals, result

vars == <<ckt, params, cells, hg, scan, out, pc, ml, wlcalc, contexts, calls>>

\* A circuit read from one of files, and a new context for it configured as
\* one of configs.
InitWith(files, configs) ==
    /\ ckt \in {ReadAux(f) : f \in files}
    /\ params \in {Configure(HyperParamsNew(ckt), cfg) : cfg \in configs}
    /\ cells = <<>>
    /\ hg = HyperGraphNew
    /\ scan = NoScan
    /\ out = <<>>
    /\ pc = "ready"
    /\ ml = MarkListNew(0)
    /\ wlcalc = WlCalcNew(ckt)
    /\ contexts = <<>>
    /\ calls = <<>>

\* Every nets file within the bound, under the plain configurations.
Init == InitWith(NetsFiles(MaxPins), PlainConfigs)

\* The nets files of one net, under every configuration.
InitConfig == InitWith(OneNetFiles, Configs)

\* A call of build_graph on the subset s.
BuildGraph(s) ==
    /\ pc = "ready"
    /\ \E r \in {build_graph(ckt, s, params)} :
           /\ params' = r.params
           /\ hg' = r.hg
           /\ scan' = r.scan
           /\ out' = r.out
           /\ pc' = IF r.panic THEN "panicked" ELSE "returned"
    /\ cells' = s
    /\ UNCHANGED <<ckt, ml, wlcalc, contexts, calls>>

Next == \E s \in Subsets : BuildGraph(s)

Spec == Init /\ [][Next]_vars

SpecConfig == InitConfig /\ [][Next]_vars

(***************************************************************************)
(* Reuse of a context: calls of build_graph whose hypergraph the caller    *)
(* has dropped come before the call observed.                              *)
(***************************************************************************)

\* Whether the pin lines of file, read through from line off on, name the
\* cells 0, 1, 2, ... in turn.
RECURSIVE InTurn(_, _)
InTurn(file, off) ==
    IF file = <<>> THEN TRUE
    ELSE /\ \A k \in DOMAIN Head(file).pins : Head(file).pins[k].cell = (off + k - 1) % NumCells
         /\ InTurn(Tail(file), off + Len(Head(file).pins))

\* The nets files that put one pin on each cell in turn, cut into net records
\* in every way.
InTurnFiles == {f \in NetsFiles(MaxPins) : InTurn(f, 0)}

\* A vertical split between the pins with terminal propagation, weights of
\* mode 1.
ReuseConfigs ==
    [horizontal : {FALSE}, split_point : {2}, term_prop : {TRUE}, edgeweight : {1}]

InitReuse == InitWith(InTurnFiles, ReuseConfigs)

\* Every nets file within the bound, under terminal propagation and the
\* weights of mode 1.
InitWeighted == InitWith(NetsFiles(MaxPins), ReuseConfigs)

SpecWeighted == InitWeighted /\ [][Next]_vars

\* An earlier call of build_graph on the subset s that returned: its marks
\* stay in the context.
PriorCall(s) ==
    /\ pc = "ready"
    /\ \E r \in {build_graph(ckt, s, params)} :
           /\ ~r.panic
           /\ params' = r.params
    /\ UNCHANGED <<ckt, cells, hg, scan, out, pc, ml, wlcalc, contexts, calls>>

NextReuse == \E s \in Subsets : PriorCall(s) \/ BuildGraph(s)

SpecReuse == InitReuse /\ [][NextReuse]_vars

(***************************************************************************)
(* Any argument: build_graph on a vector that may repeat an id or hold an  *)
(* id that is no cell of the circuit.                                      *)
(***************************************************************************)

\* The ids of the cells and the first id past them.
AnyIds == 0 .. NumCells

\* The vectors of at most NumCells ids.
AnyVectors == UNION {[1 .. n -> AnyIds] : n \in 0 .. NumCells}

InitInput == InitWith(OneNetFiles, PlainConfigs)

NextInput == \E s \in AnyVectors : BuildGraph(s)

SpecInput == InitInput /\ [][NextInput]_vars

(***************************************************************************)
(* A nets file with a line that is no header: the nets after it are        *)
(* numbered one higher on the cells' pins than they stand in nets.         *)
(***************************************************************************)

\* Net records of one pin line.
OnePinRecords == {[header |-> "NetDegree", pins |-> <<pl>>] : pl \in PinLines}

\* The nets files of a line that is no header, then 1 .. MaxPins + 1 net
\* records of one pin line.
SkippedFiles ==
    {<<OtherLine>> \o f : f \in UNION {[1 .. d -> OnePinRecords] : d \in 1 .. (MaxPins + 1)}}

InitSkipped == InitWith(SkippedFiles, PlainConfigs)

SpecSkipped == InitSkipped /\ [][Next]_vars

\* Every nets file within the bound, and those with a line that is no header.
InitWarn == InitWith(NetsFiles(MaxPins) \cup SkippedFiles, PlainConfigs)

SpecWarn == InitWarn /\ [][Next]_vars

(***************************************************************************)
(* The MarkList alone: calls of mark and clear, in any order, on a         *)
(* MarkList::new(n).                                                       *)
(***************************************************************************)

\* A mark list of any length up to MaxLen, newly created, beside a circuit
\* without nets and its context.
InitMarkList ==
    /\ ckt = ReadAux(<<>>)
    /\ params = HyperParamsNew(ckt)
    /\ cells = <<>>
    /\ hg = HyperGraphNew
    /\ scan = NoScan
    /\ out = <<>>
    /\ pc = "ready"
    /\ ml \in {MarkListNew(n) : n \in 0 .. MaxLen}
    /\ wlcalc = WlCalcNew(ckt)
    /\ contexts = <<>>
    /\ calls = <<>>

\* ml.mark(n), for n < len.
MarkOp(n) ==
    /\ n < ml.len
    /\ ml' = Mark(ml, n)
    /\ UNCHANGED <<ckt, params, cells, hg, scan, out, pc, wlcalc, contexts, calls>>

\* ml.clear()
ClearOp ==
    /\ ml' = Clear(ml)
    /\ UNCHANGED <<ckt, params, cells, hg, scan, out, pc, wlcalc, contexts, calls>>

NextMarkList == (\E n \in 0 .. (MaxLen - 1) : MarkOp(n)) \/ ClearOp

SpecMarkList == InitMarkList /\ [][NextMarkList]_vars

(***************************************************************************)
(* A WlCalc on a circuit: calls of add_cells and clear in any order.       *)
(* cells holds the ids given to add_cells since the last clear, in order.  *)
(***************************************************************************)

\* The vectors of one or two cells, repeats included.
CellVectors == UNION {[1 .. n -> CellIds] : n \in 1 .. 2}

\* Every nets file within the bound; the context plays no part.
InitWl == InitWith(NetsFiles(MaxPins), ReuseConfigs)

\* wlcalc.add_cells(&ckt, &cs), while the ids added stay within NumCells.
WlAddCells(cs) ==
    /\ pc = "ready"
    /\ Len(cells) + Len(cs) <= NumCells
    /\ \E w \in {AddCells(wlcalc, ckt, cs)} :
           /\ wlcalc' = w
           /\ pc' = IF w.panic THEN "panicked" ELSE "ready"
    /\ cells' = cells \o cs
    /\ UNCHANGED <<ckt, params, hg, scan, out, ml, contexts, calls>>

\* wlcalc.clear()
WlClear ==
    /\ pc = "ready"
    /\ wlcalc' = WlCalcClear(wlcalc)
    /\ cells' = <<>>
    /\ UNCHANGED <<ckt, params, hg, scan, out, pc, ml, contexts, calls>>

NextWl == (\E cs \in CellVectors : WlAddCells(cs)) \/ WlClear

SpecWl == InitWl /\ [][NextWl]_vars

(***************************************************************************)
(* Two calls of build_graph on one circuit that run together, each on a    *)
(* context of its own.  A call goes through build_graph loop by loop: the  *)
(* two clears, the marking loop cell by cell, the scanning loop, and the   *)
(* rest up to the return; the steps of the two calls come in any order.    *)
(***************************************************************************)

CallIds == {1, 2}

\* The context call t was given: the one at its own place, for both.
ContextShared(t) == 1

\* The context call t was given (params: &mut HyperParams): each call has
\* one created for it by HyperParams::new.
ContextOf(t) == t

\* The subsets of the cells as vectors in ascending order of id.
RECURSIVE Ascending(_)
Ascending(ids) ==
    IF ids = {} THEN <<>>
    ELSE LET x == CHOOSE y \in ids : \A z \in ids : y <= z
         IN  <<x>> \o Ascending(ids \ {x})

AscendingSubsets == {Ascending(ids) : ids \in SUBSET CellIds}

\* A call of build_graph(&cs, ...) that has not begun.
NewCall(cs) ==
    [cells |-> cs, pc |-> "ready", i |-> 0, out |-> <<>>, sc |-> NoScan, hg |-> HyperGraphNew]

\* A circuit of nets on the cells in turn, two contexts created for it and
\* configured alike, and two calls: the first on any subset in any order, the
\* second on any subset in ascending order.
InitTogether ==
    /\ ckt \in {ReadAux(f) : f \in InTurnFiles}
    /\ params \in {Configure(HyperParamsNew(ckt), cfg) : cfg \in ReuseConfigs}
    /\ cells = <<>>
    /\ hg = HyperGraphNew
    /\ scan = NoScan
    /\ out = <<>>
    /\ pc = "ready"
    /\ ml = MarkListNew(0)
    /\ wlcalc = WlCalcNew(ckt)
    /\ contexts = <<params, params>>
    /\ calls \in {<<NewCall(s1), NewCall(s2)>> : s1 \in Subsets, s2 \in AscendingSubsets}

\* Call t clears the two mark lists of its context.
ClearStep(t) ==
    /\ calls[t].pc = "ready"
    /\ contexts' = [contexts EXCEPT ![ContextOf(t)] =
                        [@ EXCEPT !.cellmark = Clear(@), !.netmark = Clear(@)]]
    /\ calls' = [calls EXCEPT ![t].pc = "marking"]
    /\ UNCHANGED <<ckt, params, cells, hg, scan, out, pc, ml, wlcalc>>

\* Call t goes through one iteration of the marking loop.
MarkStep(t) ==
    /\ calls[t].pc = "marking"
    /\ calls[t].i < Len(calls[t].cells)
    /\ \E st \in {MarkCell(ckt, calls[t].cells,
                            [cellmark |-> contexts[ContextOf(t)].cellmark,
                             netmark |-> contexts[ContextOf(t)].netmark,
                             out |-> calls[t].out, panic |-> FALSE],
                            calls[t].i)} :
           /\ contexts' = [contexts EXCEPT ![ContextOf(t)] =
                               [@ EXCEPT !.cellmark = st.cellmark, !.netmark = st.netmark]]
           /\ calls' = [calls EXCEPT ![t].out = st.out,
                                      ![t].i = @ + 1,
                                      ![t].pc = IF st.panic THEN "panicked" ELSE "marking"]
    /\ UNCHANGED <<ckt, params, cells, hg, scan, out, pc, ml, wlcalc>>

\* Call t, the marking loop over, goes through the scanning loop.
ScanStep(t) ==
    /\ calls[t].pc = "marking"
    /\ calls[t].i >= Len(calls[t].cells)
    /\ \E sc \in {ScanNets(ckt, calls[t].cells, contexts[ContextOf(t)],
                            [cardinality |-> Fill(Len(contexts[ContextOf(t)].netmark.list), 0),
                             sinks |-> Fill(Len(contexts[ContextOf(t)].netmark.list), FALSE),
                             sources |-> Fill(Len(contexts[ContextOf(t)].netmark.list), FALSE),
                             warned |-> FALSE, out |-> calls[t].out, panic |-> FALSE], 1)} :
           calls' = [calls EXCEPT ![t].sc = sc,
                                  ![t].pc = IF sc.panic THEN "panicked" ELSE "scanned"]
    /\ UNCHANGED <<ckt, params, cells, hg, scan, out, pc, ml, wlcalc, contexts>>

\* Call t pushes the vertices and the hyperedges, and returns.
EmitStep(t) ==
    /\ calls[t].pc = "scanned"
    /\ \E r \in {Emit(ckt, contexts[ContextOf(t)], calls[t].sc)} :
           calls' = [calls EXCEPT ![t].hg = r.hg, ![t].out = r.out, ![t].pc = "returned"]
    /\ UNCHANGED <<ckt, params, cells, hg, scan, out, pc, ml, wlcalc, contexts>>

NextTogether ==
    \E t \in CallIds : ClearStep(t) \/ MarkStep(t) \/ ScanStep(t) \/ EmitStep(t)

SpecTogether == InitTogether /\ [][NextTogether]_vars

(***************************************************************************)
(* What the properties speak of, stated on the circuit and the subset and  *)
(* not through the loops above.                                            *)
(***************************************************************************)

Returned == pc = "returned"

\* The subset S, as a set.
InS == Range(cells)

NetIds == 0 .. (Len(ckt.nets) - 1)

\* The pin references of net n on cells of S, and those on cells outside S,
\* in the order of the net's pin list.
InternalRefs(n) == SelectSeq(At(ckt.nets, n).pins, LAMBDA pr : pr.parent_cell \in InS)

BoundaryRefs(n) == SelectSeq(At(ckt.nets, n).pins, LAMBDA pr : pr.parent_cell \notin InS)

\* The nets with a pin on a cell of S: by the nets' pin lists, and by the
\* cells' pin lists.
TouchedNets == {n \in NetIds : Len(InternalRefs(n)) > 0}

CellSideNets ==
    {At(ckt.cells, c).pins[k].parent_net : <<c, k>> \in
        {<<c, k>> \in InS \X (1 .. MaxPins) : k <= Len(At(ckt.cells, c).pins)}}

\* The local vertex id of a cell of S: its position in the subset.
LocalId(c) == (CHOOSE k \in DOMAIN cells : cells[k] = c) - 1

\* The hyperedges of the hypergraph returned, the net of hyperedge e, and the
\* pins of hyperedge e in the flat array.
Edges == 0 .. (Len(hg.hewt) - 1)

NetOf(e) == At(params.netmark.list, e)

Segment(e) == SubSeq(hg.eptr, At(hg.eind, e) + 1, At(hg.eind, e + 1))

\* How often x occurs in the sequence v.
Count(v, x) == Cardinality({k \in DOMAIN v : v[k] = x})

\* The absolute position of a pin on the split axis: cell position plus pin
\* offset, x for a vertical split and y for a horizontal one.
AxisCoord(pr) ==
    LET pos == At(ckt.cellpos, pr.parent_cell)
        pin == At(At(ckt.cells, pr.parent_cell).pins, pr.index)
    IN  IF params.horizontal THEN pos.y + pin.dy ELSE pos.x + pin.dx

\* Net n has a boundary pin strictly before the split coordinate; at or after.
BoundaryBefore(n) ==
    \E k \in DOMAIN BoundaryRefs(n) : AxisCoord(BoundaryRefs(n)[k]) < params.split_point

BoundaryAfter(n) ==
    \E k \in DOMAIN BoundaryRefs(n) : AxisCoord(BoundaryRefs(n)[k]) >= params.split_point

\* Net n touches source, sink: terminal propagation classified a boundary pin
\* of it so.
TouchesSource(n) == params.term_prop /\ BoundaryBefore(n)

TouchesSink(n) == params.term_prop /\ BoundaryAfter(n)

\* The local ids of the pins of net n on cells of S, in pin-list order.
InternalIds(n) == [k \in DOMAIN InternalRefs(n) |-> LocalId(InternalRefs(n)[k].parent_cell)]

\* The ids of the two pseudo-vertices.
SourceId == Len(cells)

SinkId == Len(cells) + 1

(***************************************************************************)
(* Properties                                                              *)
(***************************************************************************)

\* C1: build_graph emits exactly one hyperedge, and one hyperedge weight, per
\* distinct net with at least one pin on a cell of S; no net is discovered
\* twice, however many pins of cells of S touch it.
C1_OneHyperedgePerTouchedNet ==
    Returned =>
        /\ Len(hg.hewt) = Cardinality(TouchedNets)
        /\ Len(hg.eind) = Cardinality(TouchedNets) + 1
        /\ Len(params.netmark.list) = Cardinality(TouchedNets)
        /\ Range(params.netmark.list) = TouchedNets
        /\ CellSideNets = TouchedNets

\* A call returned where two pins of cells of S touch one net, and another net
\* of the circuit has no pin on S.
C1_Witness ==
    /\ Returned
    /\ \E n \in TouchedNets : Len(InternalRefs(n)) >= 2
    /\ NetIds \ TouchedNets # {}
    /\ Len(hg.hewt) >= 1

\* C2: for every net with k pins on cells of S, its hyperedge holds exactly k
\* local vertex ids as internal pins: each cell of S as often as it has pins on
\* the net, and nothing else below |S|.
C2_InternalPinsExact ==
    Returned =>
        \A e \in Edges :
            /\ Cardinality({k \in DOMAIN Segment(e) : Segment(e)[k] < Len(cells)})
                   = Len(InternalRefs(NetOf(e)))
            /\ At(scan.cardinality, e) = Len(InternalRefs(NetOf(e)))
            /\ \A c \in InS :
                   Count(Segment(e), LocalId(c))
                       = Cardinality({k \in DOMAIN InternalRefs(NetOf(e)) :
                                          InternalRefs(NetOf(e))[k].parent_cell = c})

\* A call returned where one cell of S owns two pins of the same net.
C2_Witness ==
    /\ Returned
    /\ \E e \in Edges : \E c \in InS : Count(Segment(e), LocalId(c)) >= 2

\* C3: vtxwt and part have the same length, |S| without terminal propagation
\* and |S| + 2 with it, and every value of eptr is less than that length.
C3_VertexArraysAndPinRange ==
    Returned =>
        /\ Len(hg.vtxwt) = Len(hg.part)
        /\ Len(hg.vtxwt) = Len(cells) + (IF params.term_prop THEN 2 ELSE 0)
        /\ \A k \in DOMAIN hg.eptr : hg.eptr[k] >= 0 /\ hg.eptr[k] < Len(hg.vtxwt)

\* A call returned with terminal propagation where a hyperedge holds the
\* largest vertex id, the sink's.
C3_Witness ==
    /\ Returned
    /\ params.term_prop
    /\ Len(cells) >= 1
    /\ \E k \in DOMAIN hg.eptr : hg.eptr[k] = Len(hg.vtxwt) - 1

\* The pins of hyperedge e, counted on the circuit: the pins of its net on
\* cells of S, one for source and one for sink if the net touches them.
PinCount(e) ==
    Len(InternalRefs(NetOf(e)))
        + (IF TouchesSource(NetOf(e)) THEN 1 ELSE 0)
        + (IF TouchesSink(NetOf(e)) THEN 1 ELSE 0)

\* C4: eind is a well-formed CSR index: it starts with 0, has one entry more
\* than there are hyperedges, never decreases, entry e + 1 is the running total
\* of pins after hyperedge e, and the last entry is the length of eptr.
C4_OffsetsWellFormed ==
    Returned =>
        /\ Len(hg.eind) = Len(hg.hewt) + 1
        /\ At(hg.eind, 0) = 0
        /\ \A e \in Edges :
               /\ At(hg.eind, e) <= At(hg.eind, e + 1)
               /\ At(hg.eind, e + 1) = At(hg.eind, e) + PinCount(e)
        /\ At(hg.eind, Len(hg.eind) - 1) = Len(hg.eptr)

\* A call returned with two hyperedges, the first of them with pins.
C4_Witness ==
    /\ Returned
    /\ Len(hg.hewt) >= 2
    /\ At(hg.eind, 1) >= 2
    /\ At(hg.eind, 2) > At(hg.eind, 1)

\* Net n has a boundary pin, and every boundary pin of it lies strictly before
\* the split coordinate.
AllBoundaryBefore(n) ==
    /\ Len(BoundaryRefs(n)) > 0
    /\ \A k \in DOMAIN BoundaryRefs(n) : AxisCoord(BoundaryRefs(n)[k]) < params.split_point

\* C5: with terminal propagation, a marked net whose boundary pins all lie
\* strictly before the split coordinate is marked source and not sink; one with
\* boundary pins on both sides of the split is marked source and sink.
C5_SourceOnlyAndStraddle ==
    (Returned /\ params.term_prop) =>
        \A e \in Edges :
            /\ AllBoundaryBefore(NetOf(e)) =>
                   At(scan.sources, e) /\ ~At(scan.sinks, e)
            /\ (BoundaryBefore(NetOf(e)) /\ BoundaryAfter(NetOf(e))) =>
                   At(scan.sources, e) /\ At(scan.sinks, e)

\* A call returned with terminal propagation where the boundary pins of a net
\* lie on both sides of the split, and the net is marked both.
C5_Witness ==
    /\ Returned
    /\ params.term_prop
    /\ \E e \in Edges :
           /\ BoundaryBefore(NetOf(e)) /\ BoundaryAfter(NetOf(e))
           /\ At(scan.sources, e) /\ At(scan.sinks, e)

\* C6: a boundary pin is classified by cell position plus pin offset on the
\* split axis (x for a vertical split, y for a horizontal one): a net is marked
\* source exactly if a boundary pin of it lies strictly before split_point, and
\* sink exactly if one lies at or after it.
C6_ClassifiedByAxisCoordinate ==
    (Returned /\ params.term_prop) =>
        \A e \in Edges :
            /\ At(scan.sources, e) <=> BoundaryBefore(NetOf(e))
            /\ At(scan.sinks, e) <=> BoundaryAfter(NetOf(e))

\* A call returned for a horizontal split where a boundary pin lies exactly at
\* the split in y and before it in x, and its net is marked sink only.
C6_Witness ==
    /\ Returned
    /\ params.term_prop
    /\ params.horizontal
    /\ \E e \in Edges :
           /\ \E k \in DOMAIN BoundaryRefs(NetOf(e)) :
                  LET pr  == BoundaryRefs(NetOf(e))[k]
                      pos == At(ckt.cellpos, pr.parent_cell)
                      pin == At(At(ckt.cells, pr.parent_cell).pins, pr.index)
                  IN  /\ pos.y + pin.dy = params.split_point
                      /\ pos.x + pin.dx < params.split_point
           /\ At(scan.sinks, e) /\ ~At(scan.sources, e)

\* C7: in mode 1 a net that touches source or sink has weight 6 and every
\* other net weight 5; in mode 0 every net has weight 1.
C7_WeightsByMode ==
    Returned =>
        /\ Len(hg.hewt) = Len(params.netmark.list)
        /\ params.edgeweight = 1 =>
               \A e \in Edges :
                   At(hg.hewt, e) = IF TouchesSource(NetOf(e)) \/ TouchesSink(NetOf(e))
                                    THEN 6 ELSE 5
        /\ params.edgeweight = 0 => \A e \in Edges : At(hg.hewt, e) = 1

\* A call returned in mode 1 with a hyperedge of weight 6 whose net touches the
\* sink and not the source.
C7_Witness ==
    /\ Returned
    /\ params.edgeweight = 1
    /\ \E e \in Edges :
           /\ TouchesSink(NetOf(e)) /\ ~TouchesSource(NetOf(e))
           /\ At(hg.hewt, e) = 6

\* C8: under an edge-weight mode other than 0 and 1 build_graph does not fail,
\* every hyperedge has weight 1, and the hypergraph is the one mode 0 gives.
C8_OtherModesAsModeZero ==
    (pc # "ready" /\ params.edgeweight \notin {0, 1}) =>
        /\ Returned
        /\ \A e \in Edges : At(hg.hewt, e) = 1
        /\ hg = build_graph(ckt, cells, [params EXCEPT !.edgeweight = 0]).hg

\* A call returned in mode 2 with a hyperedge whose net touches source or sink.
C8_Witness ==
    /\ Returned
    /\ params.edgeweight = 2
    /\ \E e \in Edges : TouchesSource(NetOf(e)) \/ TouchesSink(NetOf(e))

C10_PinOrderInHyperedge ==
    Returned =>
        \A e \in Edges :
            /\ At(scan.sources, e) = TouchesSource(NetOf(e))
            /\ At(scan.sinks, e) = TouchesSink(NetOf(e))
            /\ Segment(e) = InternalIds(NetOf(e))
                                \o (IF At(scan.sources, e) THEN <<SourceId>> ELSE <<>>)
                                \o (IF At(scan.sinks, e) THEN <<SinkId>> ELSE <<>>)
            /\ Len(Segment(e)) = PinCount(e)

\* A call returned with a hyperedge of an internal pin, the source and the sink.
C10_Witness ==
    /\ Returned
    /\ \E e \in Edges :
           /\ Len(InternalRefs(NetOf(e))) >= 1
           /\ Segment(e) = InternalIds(NetOf(e)) \o <<SourceId, SinkId>>

\* The 32-bit signed integers.
IsCInt(v) == v >= -2147483647 - 1 /\ v <= 2147483647

\* C11: the weight of local vertex v < |S| is width times height of the v-th
\* cell marked, which is the v-th cell of S, and it is a 32-bit signed integer.
C11_VertexWeightsAreAreas ==
    Returned =>
        /\ params.cellmark.list = cells
        /\ \A v \in 0 .. (Len(cells) - 1) :
               /\ At(hg.vtxwt, v) = At(ckt.cells, At(cells, v)).w * At(ckt.cells, At(cells, v)).h
               /\ IsCInt(At(hg.vtxwt, v))

\* A call returned on a subset that lists a cell of a higher id first, the two
\* cells of different areas.
C11_Witness ==
    /\ Returned
    /\ Len(cells) >= 2
    /\ At(cells, 0) > At(cells, 1)
    /\ At(hg.vtxwt, 0) # At(hg.vtxwt, 1)
    /\ At(hg.vtxwt, 0) = 8

\* C12: on the empty subset build_graph returns, with no hyperedge: eind is
\* <<0>>, eptr and hewt are empty; with terminal propagation the vertex arrays
\* hold the two pseudo-vertices and nothing else, without it nothing.
C12_EmptySubset ==
    (pc # "ready" /\ cells = <<>>) =>
        /\ Returned
        /\ hg.eind = <<0>>
        /\ hg.eptr = <<>>
        /\ hg.hewt = <<>>
        /\ hg.vtxwt = (IF params.term_prop THEN <<1, 1>> ELSE <<>>)
        /\ hg.part = (IF params.term_prop THEN <<0, 1>> ELSE <<>>)
        /\ params.cellmark.list = <<>>
        /\ params.netmark.list = <<>>

\* A call returned on the empty subset of a circuit with nets, with terminal
\* propagation.
C12_Witness ==
    /\ Returned
    /\ cells = <<>>
    /\ params.term_prop
    /\ Len(ckt.nets) >= 2
    /\ Len(hg.vtxwt) = 2

\* C13: a marked net with every pin on a cell of S is marked neither source
\* nor sink and its hyperedge holds its internal pins only, neither pseudo-id,
\* wherever its pins lie, and weighs 5 in mode 1; a marked net with a pin
\* outside S is marked source and sink by the positions of its outside pins.
C13_AllInternalNetNotPropagated ==
    Returned =>
        \A e \in Edges :
            /\ Len(BoundaryRefs(NetOf(e))) = 0 =>
                   /\ ~At(scan.sources, e) /\ ~At(scan.sinks, e)
                   /\ Count(Segment(e), SourceId) = 0
                   /\ Count(Segment(e), SinkId) = 0
                   /\ Segment(e) = InternalIds(NetOf(e))
                   /\ params.edgeweight = 1 => At(hg.hewt, e) = 5
            /\ Len(BoundaryRefs(NetOf(e))) > 0 =>
                   /\ At(scan.sources, e) = (params.term_prop /\ BoundaryBefore(NetOf(e)))
                   /\ At(scan.sinks, e) = (params.term_prop /\ BoundaryAfter(NetOf(e)))

\* A call returned in mode 1 with terminal propagation, with a net of no pin
\* outside S whose pins lie on both sides of the split, of weight 5.
C13_Witness ==
    /\ Returned
    /\ params.term_prop
    /\ params.edgeweight = 1
    /\ \E e \in Edges :
           /\ Len(BoundaryRefs(NetOf(e))) = 0
           /\ \E j, k \in DOMAIN InternalRefs(NetOf(e)) :
                  /\ AxisCoord(InternalRefs(NetOf(e))[j]) < params.split_point
                  /\ AxisCoord(InternalRefs(NetOf(e))[k]) >= params.split_point
           /\ At(hg.hewt, e) = 5

\* The configuration of the context, on a context newly created for the
\* circuit.
FreshParams ==
    Configure(HyperParamsNew(ckt),
              [horizontal |-> params.horizontal, split_point |-> params.split_point,
               term_prop |-> params.term_prop, edgeweight |-> params.edgeweight])

\* C14: whatever calls of build_graph the context has been through, the
\* hypergraph returned is the one a newly created context gives for the same
\* circuit, subset and configuration.
C14_ResultIndependentOfEarlierCalls ==
    Returned => hg = build_graph(ckt, cells, FreshParams).hg

\* A call returned with hyperedges on a context in which an earlier call has
\* left an index on a cell outside S and on a net without pin on S.
C14_Witness ==
    /\ Returned
    /\ Len(hg.hewt) >= 1
    /\ \E c \in CellIds \ InS : At(params.cellmark.index, c) > 0
    /\ \E n \in NetIds \ TouchedNets : At(params.netmark.index, n) > 0

Called == pc # "ready"

Panicked == pc = "panicked"

\* The positions of cells that repeat an earlier id, and those that hold an id
\* that is no cell of the circuit.
Repeats == {k \in DOMAIN cells : \E j \in 1 .. (k - 1) : cells[j] = cells[k]}

OutOfRange == {k \in DOMAIN cells : cells[k] >= Len(ckt.cells)}

\* The least position of a nonempty set of positions.
First(ks) == CHOOSE k \in ks : \A j \in ks : k <= j

AlreadyMarked == [msg |-> "Cell already marked!"]

\* C15: a call on a subset that repeats an id panics and returns no
\* hypergraph; where the repeat comes before any id out of range, "Cell
\* already marked!" is printed and the marking has stopped at the repeat.
C15_DuplicateIsHardFailure ==
    (Called /\ Repeats # {}) =>
        /\ Panicked
        /\ hg = HyperGraphNew
        /\ (\A k \in OutOfRange : First(Repeats) < k) =>
               /\ out = <<AlreadyMarked>>
               /\ Len(params.cellmark.list) = First(Repeats) - 1

\* A call panicked on three ids in range, the last of them the first again.
C15_Witness ==
    /\ Panicked
    /\ OutOfRange = {}
    /\ Len(cells) = 3
    /\ Repeats = {3}
    /\ cells[1] = cells[3]
    /\ out = <<AlreadyMarked>>

\* C16: a call on a subset that holds an id not less than the number of cells
\* panics, on an index out of range, and returns no hypergraph; no position
\* from that id on is marked.
C16_OutOfRangeIsFatal ==
    (Called /\ OutOfRange # {}) =>
        /\ Panicked
        /\ hg = HyperGraphNew
        /\ Len(params.cellmark.list) < First(OutOfRange)
        /\ \A k \in DOMAIN params.cellmark.list : params.cellmark.list[k] < Len(ckt.cells)

\* A call panicked on two cells followed by the id that is the number of
\* cells, nothing printed.
C16_Witness ==
    /\ Panicked
    /\ Len(cells) = 3
    /\ OutOfRange = {3}
    /\ cells[3] = Len(ckt.cells)
    /\ Repeats = {}
    /\ out = <<>>
    /\ Len(params.cellmark.list) = 2

\* C17: when a call panics on a repeated id or an id out of range, the two
\* mark lists of the context are what they were when the call began.
C17_NoMutationBeforeError ==
    [][(pc' = "panicked" /\ (Repeats' # {} \/ OutOfRange' # {})) =>
           (params'.cellmark = params.cellmark /\ params'.netmark = params.netmark)]_vars

\* The hyperedges whose net has no pin on a cell of S, by the net's pin list.
ZeroEdges == {e \in Edges : Len(InternalRefs(NetOf(e))) = 0}

NotDetected(n) == [msg |-> "marked, but not detected", net |-> n]

\* The positions of out that report a net as marked but not detected.
Reports == {k \in DOMAIN out : out[k].msg = "marked, but not detected"}

\* The pins of the cells of S name nets of the circuit.
ParentNetsInRange ==
    \A c \in InS : \A k \in DOMAIN At(ckt.cells, c).pins :
        At(ckt.cells, c).pins[k].parent_net < Len(ckt.nets)

DegenerateEdges == {e \in Edges : Len(Segment(e)) < 2}

CardWarnings == {k \in DOMAIN out : out[k].msg = "Cardinality"}

\* The pins of hyperedge e, from the circuit: the internal ids, then source,
\* then sink.
PinsOf(e) ==
    InternalIds(NetOf(e))
        \o (IF TouchesSource(NetOf(e)) THEN <<SourceId>> ELSE <<>>)
        \o (IF TouchesSink(NetOf(e)) THEN <<SinkId>> ELSE <<>>)

\* C19 as stated: under any configuration every hyperedge of fewer than two
\* pins is emitted with the pins it has and reported by a warning.
C19_EveryDegenerateEdgeFlagged ==
    Returned =>
        \A e \in DegenerateEdges :
            /\ Segment(e) = PinsOf(e)
            /\ \E k \in CardWarnings : out[k].net = e

\* C19, amended: every hyperedge of fewer than two pins is emitted with the
\* pins it has, and none is removed.  With terminal propagation, in a call
\* that reported no net as marked but not detected, the first such hyperedge
\* is reported by one warning that names it, its pin count and its source and
\* sink marks; in any other call there is no warning.
C19_FirstDegenerateEdgeFlagged ==
    Returned =>
        /\ Len(hg.hewt) = Len(params.netmark.list)
        /\ \A e \in DegenerateEdges : Segment(e) = PinsOf(e)
        /\ IF params.term_prop /\ Reports = {} /\ DegenerateEdges # {}
           THEN /\ Cardinality(CardWarnings) = 1
                /\ out[First(CardWarnings)] =
                       [msg |-> "Cardinality",
                        card |-> Len(Segment(First(DegenerateEdges))),
                        net |-> First(DegenerateEdges),
                        source |-> TouchesSource(NetOf(First(DegenerateEdges))),
                        sink |-> TouchesSink(NetOf(First(DegenerateEdges)))]
           ELSE CardWarnings = {}

\* A call returned with terminal propagation and one warning, which names the
\* second hyperedge: the first has an internal pin and a propagated one.
C19_Witness ==
    /\ Returned
    /\ params.term_prop
    /\ Cardinality(CardWarnings) = 1
    /\ First(DegenerateEdges) = 1
    /\ out[First(CardWarnings)].net = 1
    /\ Len(InternalRefs(NetOf(0))) = 1
    /\ Len(Segment(0)) = 2

\* The ids marked in the mark list m.
MarkedIds(m) == {i \in 0 .. (m.len - 1) : At(m.marked, i)}

\* C20: after any calls of mark(i), i < n, and clear() on MarkList::new(n),
\* list repeats no id, is as long as there are ids marked, holds exactly the
\* ids marked, and index[list[k]] = k at every position k.
C20_MarkListInvariant ==
    /\ \A j, k \in DOMAIN ml.list : j # k => ml.list[j] # ml.list[k]
    /\ Len(ml.list) = Cardinality(MarkedIds(ml))
    /\ Range(ml.list) = MarkedIds(ml)
    /\ \A k \in 0 .. (Len(ml.list) - 1) : At(ml.index, At(ml.list, k)) = k
    /\ Len(ml.marked) = ml.len /\ Len(ml.index) = ml.len

\* Two ids are marked, the higher first, after a clear that left an index
\* past 0 on an id now unmarked.
C20_Witness ==
    /\ Len(ml.list) = 2
    /\ ml.list[1] > ml.list[2]
    /\ \E i \in (0 .. (ml.len - 1)) \ MarkedIds(ml) : At(ml.index, i) > 0

\* The ids of the mark list.
MlIds == 0 .. (ml.len - 1)

\* C21: a step mark(i) on an id already marked changes nothing of the mark
\* list; on an id not marked it sets marked[i], appends i to list, sets
\* index[i] to the position i takes in list, and leaves the marked and index
\* entries of every other id as they were.  After it, mark(i) again changes
\* nothing.
C21_MarkIdempotent ==
    [][\A i \in 0 .. (MaxLen - 1) :
           MarkOp(i) =>
               /\ At(ml.marked, i) => ml' = ml
               /\ ~At(ml.marked, i) =>
                      /\ At(ml'.marked, i)
                      /\ ml'.list = Append(ml.list, i)
                      /\ At(ml'.index, i) = Len(ml.list)
                      /\ ml'.len = ml.len
                      /\ \A j \in MlIds \ {i} :
                             /\ At(ml'.marked, j) = At(ml.marked, j)
                             /\ At(ml'.index, j) = At(ml.index, j)
               /\ Mark(ml', i) = ml']_vars

\* Three of four ids are marked, in the order 2, 0, 3.
C21_Witness ==
    /\ ml.len = 4
    /\ ml.list = <<2, 0, 3>>
    /\ ml.marked = <<TRUE, FALSE, TRUE, TRUE>>
    /\ At(ml.index, 2) = 0 /\ At(ml.index, 0) = 1 /\ At(ml.index, 3) = 2

\* The sequences of at most two ids of the mark list.
MarkSeqs == UNION {[1 .. n -> MlIds] : n \in 0 .. 2}

\* The mark list m after mark(seq[1]), mark(seq[2]), ...
RECURSIVE MarkAll(_, _)
MarkAll(m, seq) == IF seq = <<>> THEN m ELSE MarkAll(Mark(m, Head(seq)), Tail(seq))

\* What a mark list shows of its marks: marked, list, and the index of the
\* ids marked.
Shown(m) ==
    [marked |-> m.marked, list |-> m.list,
     index |-> [k \in DOMAIN m.list |-> At(m.index, m.list[k])]]

\* C22: a step clear() leaves no id marked and list empty, and every sequence
\* of marks after it gives the marks, the list and the index of the ids
\* marked that it gives on MarkList::new of the same length.
C22_ClearResets ==
    [][ClearOp =>
           /\ ml'.list = <<>>
           /\ \A i \in MlIds : ~At(ml'.marked, i)
           /\ ml'.len = ml.len
           /\ \A seq \in MarkSeqs :
                  Shown(MarkAll(ml', seq)) = Shown(MarkAll(MarkListNew(ml.len), seq))]_vars

\* A mark list just cleared: nothing is marked, and two ids keep the index of
\* an earlier mark.
C22_Witness ==
    /\ ml.list = <<>>
    /\ \A i \in MlIds : ~At(ml.marked, i)
    /\ Cardinality({i \in MlIds : At(ml.index, i) > 0}) >= 2

\* C23: a step clear() on a mark list of k ids marked writes the marked entry
\* of those k ids, once each, and of no other id, whatever the length of the
\* mark list, and leaves index as it was.
C23_ClearWritesMarkedOnly ==
    [][ClearOp =>
           /\ Len(ClearWrites(ml)) = Cardinality(MarkedIds(ml))
           /\ Range(ClearWrites(ml)) = MarkedIds(ml)
           /\ ml'.index = ml.index
           /\ \A i \in MlIds : ~At(ml'.marked, i)]_vars

\* A mark list of the largest length just cleared, in which one id only has
\* ever been marked past the first position.
C23_Witness ==
    /\ ml.len = MaxLen
    /\ ml.list = <<>>
    /\ Cardinality({i \in MlIds : At(ml.index, i) > 0}) = 1

\* The nets that hold a pin reference to one of the cells added.
NetsOfAdded ==
    {j \in NetIds : \E k \in DOMAIN At(ckt.nets, j).pins :
                        At(ckt.nets, j).pins[k].parent_cell \in Range(cells)}

\* The wire length of the nets of the set js, each counted once.
RECURSIVE SumWl(_)
SumWl(js) ==
    IF js = {} THEN 0
    ELSE LET j == CHOOSE x \in js : TRUE
         IN  NetWl(ckt, At(ckt.nets, j)) + SumWl(js \ {j})

\* C24: whatever add_cells calls came since the last clear, marked_nets.list
\* holds each net with a pin on a cell added, once, and no other net, and wl
\* is the sum of the wire lengths of these nets, each counted once; with no
\* cell added since the clear, no net is marked.
C24_EachNetOnce ==
    pc = "ready" =>
        /\ Range(wlcalc.marked_nets.list) = NetsOfAdded
        /\ Len(wlcalc.marked_nets.list) = Cardinality(NetsOfAdded)
        /\ MarkedIds(wlcalc.marked_nets) = NetsOfAdded
        /\ Wl(wlcalc, ckt) = SumWl(NetsOfAdded)
        /\ cells = <<>> => \A j \in NetIds : ~At(wlcalc.marked_nets.marked, j)

\* Cell 0 was added twice and cell 1 once; they share a net, cell 0 has a
\* net of its own, and the wire length is not zero.
C24_Witness ==
    /\ pc = "ready"
    /\ Count(cells, 0) = 2 /\ Count(cells, 1) = 1
    /\ Len(ckt.nets) = 2
    /\ Len(wlcalc.marked_nets.list) = 2
    /\ \E j \in NetIds : {At(ckt.nets, j).pins[k].parent_cell : k \in DOMAIN At(ckt.nets, j).pins} = {0, 1}
    /\ Wl(wlcalc, ckt) > 0

\* The parent nets of the pins of the cells of the vector v, cell after cell
\* and pin after pin.
RECURSIVE Encountered(_)
Encountered(v) ==
    IF v = <<>> THEN <<>>
    ELSE LET pins == At(ckt.cells, Head(v)).pins
         IN  [k \in DOMAIN pins |-> pins[k].parent_net] \o Encountered(Tail(v))

\* The sequence v without the later occurrences of what it repeats.
RECURSIVE Distinct(_)
Distinct(v) ==
    IF v = <<>> THEN <<>>
    ELSE LET r == Distinct(SubSeq(v, 1, Len(v) - 1))
         IN  IF v[Len(v)] \in Range(r) THEN r ELSE Append(r, v[Len(v)])

\* The nets on the cells of S in the order in which they are first met.
Discovery == Distinct(Encountered(cells))

\* C25: the hypergraph returned has one hyperedge for each net on a cell of
\* S, hyperedge e being the e-th distinct net met when the cells of S are gone
\* through in the given order and the pins of each cell in pin-list order;
\* netmark.list is that order, and the weight at e and the pins between
\* eind[e] and eind[e + 1] are those of that net.
C25_FirstDiscoveryOrder ==
    Returned =>
        /\ params.netmark.list = Discovery
        /\ Len(hg.hewt) = Len(Discovery)
        /\ Len(hg.eind) = Len(Discovery) + 1
        /\ \A e \in Edges :
               LET n == At(Discovery, e)
               IN  /\ At(hg.hewt, e) = (IF TouchesSource(n) \/ TouchesSink(n) THEN 6 ELSE 5)
                   /\ Segment(e) = InternalIds(n)
                                      \o (IF TouchesSource(n) THEN <<SourceId>> ELSE <<>>)
                                      \o (IF TouchesSink(n) THEN <<SinkId>> ELSE <<>>)

\* A call returned with two hyperedges, net 1 met before net 0, of different
\* weights and different numbers of pins.
C25_Witness ==
    /\ Returned
    /\ Discovery = <<1, 0>>
    /\ At(hg.hewt, 0) # At(hg.hewt, 1)
    /\ Len(Segment(0)) # Len(Segment(1))

\* The positions of the cells of S in the vector given, from 0.
Positions == 0 .. (Len(cells) - 1)

\* C26: a call on a duplicate-free subset S returns with cellmark.list equal
\* to S in the order given; the index of each cell of S is its position in S,
\* so that the indexes are 0 .. |S| - 1 without gap or repeat; and every
\* internal pin of every hyperedge is written as the position in S of the
\* cell the pin is on.
C26_LocalIdIsPosition ==
    (Returned /\ Repeats = {}) =>
        /\ params.cellmark.list = cells
        /\ \A k \in Positions : At(params.cellmark.index, At(cells, k)) = k
        /\ {At(params.cellmark.index, c) : c \in InS} = Positions
        /\ \A c, d \in InS :
               c # d => At(params.cellmark.index, c) # At(params.cellmark.index, d)
        /\ \A e \in Edges :
               \A k \in DOMAIN InternalRefs(NetOf(e)) :
                   /\ Segment(e)[k] \in Positions
                   /\ At(cells, Segment(e)[k]) = InternalRefs(NetOf(e))[k].parent_cell

\* A call returned on the subset <<2, 0>>, whose positions differ from the
\* cells' ids, with a hyperedge that holds both cells.
C26_Witness ==
    /\ Returned
    /\ cells = <<2, 0>>
    /\ \E e \in Edges : {Segment(e)[k] : k \in DOMAIN InternalRefs(NetOf(e))} = {0, 1}

\* The fields of a context other than its two mark lists.
Settings(p) ==
    [horizontal |-> p.horizontal, split_point |-> p.split_point, term_prop |-> p.term_prop,
     edgeweight |-> p.edgeweight, partition |-> p.partition, bias |-> p.bias, k |-> p.k,
     passes |-> p.passes, seed |-> p.seed]

\* C27: a call of build_graph, on any vector of ids and whether it returns or
\* panics, leaves the circuit (cells, nets, pins, positions) and every field
\* of the context other than cellmark and netmark as they were.
C27_FrameOfBuildGraph ==
    [][(pc = "ready" /\ pc' # "ready") =>
           /\ ckt' = ckt
           /\ Settings(params') = Settings(params)
           /\ DOMAIN params' = DOMAIN params]_vars

\* A call returned that changed both mark lists, on a context configured with
\* a split point and without terminal propagation.
C27_Witness ==
    /\ Returned
    /\ params.split_point = 2
    /\ ~params.term_prop
    /\ params.cellmark.list # <<>>
    /\ params.netmark.list # <<>>
    /\ hg.part # <<>>

\* The circuit is dual-index consistent: every pin in a cell's pin list, with
\* parent net n, is referenced by a pin reference of net n that names the
\* cell.
DualIndexConsistent ==
    \A c \in CellIds : \A k \in DOMAIN At(ckt.cells, c).pins :
        LET n == At(ckt.cells, c).pins[k].parent_net
        IN  /\ n \in NetIds
            /\ \E j \in DOMAIN At(ckt.nets, n).pins : At(ckt.nets, n).pins[j].parent_cell = c

\* C28: on a dual-index consistent circuit a call on a duplicate-free subset
\* of ids in range returns, no marked net ends the scan without internal pin,
\* "marked, but not detected" is not printed, and every hyperedge holds a
\* vertex id below |S|.
C28_ConsistentNeverReports ==
    (Called /\ DualIndexConsistent) =>
        /\ Returned
        /\ \A e \in Edges : At(scan.cardinality, e) >= 1
        /\ ZeroEdges = {}
        /\ Reports = {}
        /\ \A e \in Edges : \E k \in DOMAIN Segment(e) : Segment(e)[k] < Len(cells)

\* A call returned on a consistent circuit of three nets, on a subset of one
\* cell that is on two of them, once as the only cell of the net.
C28_Witness ==
    /\ Returned
    /\ DualIndexConsistent
    /\ Len(ckt.nets) = 3
    /\ Len(cells) = 1
    /\ hg.eind = <<0, 1, 2>>
    /\ Reports = {}

\* The pin instance a pin reference points at is there, on the cell the
\* reference names, and has net j as its parent net.
RefAgrees(j, pr) ==
    /\ InRange(ckt.cells, pr.parent_cell)
    /\ InRange(At(ckt.cells, pr.parent_cell).pins, pr.index)
    /\ At(At(ckt.cells, pr.parent_cell).pins, pr.index).parent_cell = pr.parent_cell
    /\ At(At(ckt.cells, pr.parent_cell).pins, pr.index).parent_net = j

\* The pin at index i of cell c is referenced by exactly one pin reference of
\* the net its parent_net names.
PinAgrees(c, i) ==
    LET n == At(At(ckt.cells, c).pins, i).parent_net
    IN  /\ n \in NetIds
        /\ Cardinality({k \in DOMAIN At(ckt.nets, n).pins :
                            At(ckt.nets, n).pins[k] = [parent_cell |-> c, index |-> i]}) = 1

\* C29: after read_nets the cells' pin lists and the nets' pin lists agree:
\* every pin reference of the net at index j points at a pin that exists, on
\* the cell it names, with parent net j; and every pin of every cell is
\* referenced by exactly one pin reference of the net its parent_net names.
C29_DualIndexAgrees ==
    /\ \A j \in NetIds : \A k \in DOMAIN At(ckt.nets, j).pins :
           RefAgrees(j, At(ckt.nets, j).pins[k])
    /\ \A c \in CellIds : \A i \in 0 .. (Len(At(ckt.cells, c).pins) - 1) : PinAgrees(c, i)

\* What call t gives when it runs alone on a context newly created and
\* configured as the contexts are.
Alone(t) == build_graph(ckt, calls[t].cells, params)

\* C30: with two calls of build_graph on one circuit, each on its own context,
\* their steps in any order: the context of a call that has not begun is as
\* it was created; while a call marks, the cell list of its context is the
\* part of its subset gone through; and a call that has returned has the
\* hypergraph, the printed lines and the two mark lists it has when it runs
\* alone.
C30_CallsDoNotInterfere ==
    \A t \in CallIds :
        /\ calls[t].pc \in {"ready", "marking", "scanned", "returned"}
        /\ calls[t].pc = "ready" => contexts[t] = params
        /\ calls[t].pc = "marking" =>
               contexts[t].cellmark.list = SubSeq(calls[t].cells, 1, calls[t].i)
        /\ calls[t].pc \in {"scanned", "returned"} =>
               /\ contexts[t].cellmark = Alone(t).params.cellmark
               /\ contexts[t].netmark = Alone(t).params.netmark
        /\ calls[t].pc = "returned" =>
               /\ calls[t].hg = Alone(t).hg
               /\ calls[t].out = Alone(t).out

\* Both calls under way on subsets that share a cell: the first in the middle
\* of its marking loop, one cell marked and one to go, the second with its
\* nets scanned and two of them marked.
C30_Witness ==
    /\ calls[1].pc = "marking"
    /\ calls[1].i = 1
    /\ Len(calls[1].cells) = 2
    /\ calls[2].pc = "scanned"
    /\ Len(contexts[2].netmark.list) = 2
    /\ contexts[1].cellmark.list # <<>>
    /\ Range(calls[1].cells) \cap Range(calls[2].cells) # {}
====
